---- MODULE Spec2Model ----
(***************************************************************************)
(* IR generation of the Lua++ compiler (compiler/src/ir.c): the register   *)
(* allocator, the constant pool, the tree lowering (ir_build_proto) and    *)
(* the prototype collector, as state machines over one heap of prototypes. *)
(*                                                                         *)
(* Pointers are prototype ids (0 is NULL).  The instruction list and the   *)
(* constant list of a prototype are only ever appended to and walked       *)
(* forward, so each is a sequence; the prototype lists are kept as the     *)
(* intrusive first/last/next/prev links of the source, because             *)
(* ir_collect_protos relinks them.                                         *)
(***************************************************************************)
EXTENDS Integers, Sequences, FiniteSets, TLC

VARIABLES heap, error_count, pc, steps, lastOp, prevOp, pre, marks, peak, clean, collected,
          faults

vars == <<heap, error_count, pc, steps, lastOp, prevOp, pre, marks, peak, clean, collected,
          faults>>

(***************************************************************************)
(* Bounds of the model.                                                    *)
(***************************************************************************)
MaxAllocSteps == 4
MaxPoolSteps == 3
MaxStmts == 2

(***************************************************************************)
(* Program constants.                                                      *)
(***************************************************************************)
UCHAR_MAX == 255
UCharRange == 256
SHRT_MAX == 32767
SHRT_MIN == -32768
UINT16_MAX == 65535
UShortRange == 65536
NULL == 0

Max(a, b) == IF a >= b THEN a ELSE b

(* conversion to unsigned char and to unsigned short; every unsigned int of
   the model stays below 2^31, where the conversion changes nothing *)
ToUChar(x) == x % UCharRange
ToUShort(x) == x % UShortRange

(***************************************************************************)
(* A double: finite (twice its magnitude in `half', so that 0.5 is         *)
(* representable, with a sign bit so that 0.0 and -0.0 differ), infinite   *)
(* or NaN.                                                                 *)
(***************************************************************************)
Fin(neg, half) == [k |-> "fin", neg |-> neg, half |-> half]
PosZero == Fin(FALSE, 0)
NegZero == Fin(TRUE, 0)
NaN == [k |-> "nan", neg |-> FALSE, half |-> 0]
PosInf == [k |-> "inf", neg |-> FALSE, half |-> 0]
Whole(n) == IF n < 0 THEN Fin(TRUE, 2 * (0 - n)) ELSE Fin(FALSE, 2 * n)

(* twice the numeric value of a finite double *)
Twice(d) == IF d.neg THEN 0 - d.half ELSE d.half

(* the same bit pattern *)
DoubleSameBits(a, b) == a = b

(* C's a == b on doubles: NaN equals nothing, 0.0 == -0.0 *)
DoubleEq(a, b) ==
    CASE a.k = "nan" \/ b.k = "nan" -> FALSE
      [] a.k = "inf" \/ b.k = "inf" -> a.k = b.k /\ a.neg = b.neg
      [] OTHER -> Twice(a) = Twice(b)

(* C's a <= n and a >= n for an integer n *)
DoubleLeqInt(a, n) ==
    CASE a.k = "nan" -> FALSE
      [] a.k = "inf" -> a.neg
      [] OTHER -> Twice(a) <= 2 * n
DoubleGeqInt(a, n) ==
    CASE a.k = "nan" -> FALSE
      [] a.k = "inf" -> ~a.neg
      [] OTHER -> Twice(a) >= 2 * n

(* floor(a) == a *)
FloorIsSelf(a) ==
    CASE a.k = "nan" -> FALSE
      [] a.k = "inf" -> TRUE
      [] OTHER -> a.half % 2 = 0

(* the conversion of a whole double in the short range to short *)
DoubleToShort(a) == Twice(a) \div 2

(***************************************************************************)
(* Instructions.  Each constructor sets the fields of its layout only.     *)
(***************************************************************************)
ir_instruction_ABC(op, A, B, C) == [mode |-> "iABC", op |-> op, A |-> A, B |-> B, C |-> C]
ir_instruction_ABx(op, A, Bx) == [mode |-> "iABx", op |-> op, A |-> A, Bx |-> ToUShort(Bx)]
ir_instruction_AsBx(op, A, sBx) == [mode |-> "iAsBx", op |-> op, A |-> A, sBx |-> sBx]
ir_instruction_sub(value) == [mode |-> "SUB", value |-> value]

(* what a pointer that was never assigned may make the list hold *)
UninitInstructions == {[mode |-> "UNINIT", junk |-> j] : j \in {1, 2}}

(* ir_append on a section that exists: the instruction becomes the last *)
ir_append(code, instruction) == Append(code, instruction)

(***************************************************************************)
(* Prototypes.  ir_constant_list sets first and last and leaves size as    *)
(* the allocation left it: `g' is that value.  ir_proto_list sets size to  *)
(* 1 for the empty list.  ir_proto never assigns code: p.code_set tells    *)
(* whether something was assigned to it since.  ir_proto ends without a    *)
(* return statement; its callers go on with the value they get as the new  *)
(* prototype, and the runs followed here are those in which it is p.       *)
(***************************************************************************)
UninitSizes == {0, 3}

ir_constant_list(g) == [pad |-> 0, items |-> <<>>, size |-> g]

ir_proto_list(first, last) == [first |-> first, last |-> last, size |-> 1]

ir_proto(g) ==
    [code |-> <<>>, code_set |-> FALSE,
     constant_list |-> ir_constant_list(g),
     is_vararg |-> FALSE, max_stack_size |-> 0, parameters_size |-> 0,
     top_register |-> 0,
     protos |-> ir_proto_list(NULL, NULL),
     prev |-> NULL, next |-> NULL]

(***************************************************************************)
(* Register allocator.  The state is [heap, error_count]; a call returns   *)
(* the new state, the value returned and whether the fault branch ran.     *)
(***************************************************************************)
ir_allocate_register_nomax(st, proto, count) ==
    LET p == st.heap[proto]
        top == p.top_register
        fault == p.top_register + count > UCHAR_MAX
        p1 == [p EXCEPT !.top_register = ToUChar(p.top_register + count)]
    IN [st |-> [heap |-> [st.heap EXCEPT ![proto] = p1],
                error_count |-> IF fault THEN st.error_count + 1 ELSE st.error_count],
        ret |-> top, fault |-> fault]

ir_allocate_register(st, proto, count) ==
    LET p == st.heap[proto]
        top == p.top_register
        fault == p.top_register + count > UCHAR_MAX
        p1 == [p EXCEPT !.top_register = ToUChar(p.top_register + count)]
        p2 == IF p1.top_register > p1.max_stack_size
              THEN [p1 EXCEPT !.max_stack_size = p1.top_register]
              ELSE p1
    IN [st |-> [heap |-> [st.heap EXCEPT ![proto] = p2],
                error_count |-> IF fault THEN st.error_count + 1 ELSE st.error_count],
        ret |-> top, fault |-> fault]

ir_free_register_silent(st, proto, count) ==
    LET p == st.heap[proto]
        fault == p.top_register - count < 0
        p1 == [p EXCEPT !.top_register = ToUChar(p.top_register - count)]
    IN [st |-> [heap |-> [st.heap EXCEPT ![proto] = p1],
                error_count |-> st.error_count],
        fault |-> fault]

ir_free_register(st, proto, count) ==
    LET p == st.heap[proto]
        fault == p.top_register - count < 0
        p1 == [p EXCEPT !.top_register = ToUChar(p.top_register - count)]
    IN [st |-> [heap |-> [st.heap EXCEPT ![proto] = p1],
                error_count |-> IF fault THEN st.error_count + 1 ELSE st.error_count],
        fault |-> fault]

(***************************************************************************)
(* The record of an operation, for the properties to read.                 *)
(***************************************************************************)
(* the error counter of a context when IR generation starts: the context is
   made by the caller of ir_init, which does not touch the counter *)
ContextErrorCount == 0

NotCollected == [valid |-> FALSE, seq |-> <<>>]

NoOp == [op |-> "none", arg |-> 0, ret |-> 0, fault |-> FALSE, base |-> 0]
Op(op, arg, ret, fault, base) == [op |-> op, arg |-> arg, ret |-> ret, fault |-> fault, base |-> base]

State == [heap |-> heap, error_count |-> error_count]

MainProto == 1

(***************************************************************************)
(* SpecAlloc: allocate and free calls on one prototype.                    *)
(***************************************************************************)
AllocCounts == {0, 1, 2, 254, 255}

InitAlloc ==
    /\ heap = <<ir_proto(0)>>
    /\ error_count = ContextErrorCount
    /\ pc = "alloc"
    /\ steps = 0
    /\ lastOp = NoOp
    /\ prevOp = NoOp
    /\ pre = [heap |-> <<ir_proto(0)>>, error_count |-> ContextErrorCount]
    /\ marks = <<>>
    /\ peak = 0
    /\ clean = TRUE
    /\ collected = NotCollected
    /\ faults = 0

Allocate(n) ==
    /\ pc = "alloc"
    /\ steps < MaxAllocSteps
    /\ LET r == ir_allocate_register(State, MainProto, n)
       IN /\ heap' = r.st.heap
          /\ error_count' = r.st.error_count
          /\ lastOp' = Op("allocate", n, r.ret, r.fault, r.ret)
          /\ marks' = Append(marks, [n |-> n, base |-> r.ret])
          /\ peak' = Max(peak, r.st.heap[MainProto].top_register)
          /\ clean' = (clean /\ ~r.fault)
          /\ faults' = faults + (IF heap[MainProto].top_register + n > UCHAR_MAX THEN 1 ELSE 0)
    /\ prevOp' = lastOp
    /\ pre' = State
    /\ steps' = steps + 1
    /\ UNCHANGED <<pc, collected>>

Free(n) ==
    /\ pc = "alloc"
    /\ steps < MaxAllocSteps
    /\ LET r == ir_free_register(State, MainProto, n)
           matched == marks # <<>> /\ marks[Len(marks)].n = n
       IN /\ heap' = r.st.heap
          /\ error_count' = r.st.error_count
          /\ lastOp' = Op("free", n, 0, r.fault, IF matched THEN marks[Len(marks)].base ELSE 0)
          /\ marks' = IF marks # <<>> THEN SubSeq(marks, 1, Len(marks) - 1) ELSE marks
          /\ peak' = Max(peak, r.st.heap[MainProto].top_register)
          /\ clean' = (clean /\ ~r.fault /\ matched)
          /\ faults' = faults + (IF heap[MainProto].top_register < n THEN 1 ELSE 0)
    /\ prevOp' = lastOp
    /\ pre' = State
    /\ steps' = steps + 1
    /\ UNCHANGED <<pc, collected>>

NextAlloc ==
    \/ \E n \in AllocCounts : Allocate(n)
    \/ \E n \in AllocCounts : Free(n)

SpecAlloc == InitAlloc /\ [][NextAlloc]_vars

(* C3: along a sequence of properly nested, matched allocate/free pairs none
   of which faults, top_register is back at the value it had before the
   matching allocate after each free, max_stack_size is the largest
   top_register reached so far, and max_stack_size did not decrease. *)
AllocRoundTrip ==
    clean =>
        /\ (lastOp.op = "free" => heap[MainProto].top_register = lastOp.base)
        /\ heap[MainProto].max_stack_size = peak
        /\ heap[MainProto].max_stack_size >= pre.heap[MainProto].max_stack_size

(* a matched pair has completed above an outstanding allocation, and the
   high-water mark is above the current top *)
AllocRoundTripWitness ==
    /\ clean
    /\ lastOp.op = "free"
    /\ lastOp.arg > 0
    /\ marks # <<>>
    /\ heap[MainProto].top_register > 0
    /\ heap[MainProto].max_stack_size > heap[MainProto].top_register

(* C9: in every reachable state, faulting calls included,
   0 <= top_register <= 255, max_stack_size >= top_register, and
   max_stack_size is not smaller than before the last call. *)
AllocInvariant ==
    /\ heap[MainProto].top_register >= 0
    /\ heap[MainProto].top_register <= UCHAR_MAX
    /\ heap[MainProto].max_stack_size >= heap[MainProto].top_register
    /\ heap[MainProto].max_stack_size >= pre.heap[MainProto].max_stack_size

(***************************************************************************)
(* Constant pool.  A list is [pad, items, size]: `items' are the entries   *)
(* in list order, preceded by `pad' further entries that no lookup of the  *)
(* model matches (a pool that earlier lowering has filled), and `size' is  *)
(* the size field, which only the two interning functions touch.           *)
(***************************************************************************)
NotFound == -1

StringConstant(symbol_id) == [type |-> "CONSTANT_STRING", symbol_id |-> symbol_id]
NumberConstant(value) == [type |-> "CONSTANT_NUMBER", value |-> value]

ir_constant_list_add(list, constant) == [list EXCEPT !.items = Append(@, constant)]

(* the walk from list->first: the index of the first match, or -1 *)
ir_find_string_constant(list, symbol_id) ==
    LET hits == {i \in 1..Len(list.items) :
                    /\ list.items[i].type = "CONSTANT_STRING"
                    /\ list.items[i].symbol_id = symbol_id}
    IN IF hits = {} THEN NotFound
       ELSE list.pad + (CHOOSE i \in hits : \A j \in hits : i <= j) - 1

ir_find_number_constant_bits(list, number) ==
    LET hits == {i \in 1..Len(list.items) :
                    /\ list.items[i].type = "CONSTANT_NUMBER"
                    /\ DoubleSameBits(list.items[i].value, number)}
    IN IF hits = {} THEN NotFound
       ELSE list.pad + (CHOOSE i \in hits : \A j \in hits : i <= j) - 1

ir_find_number_constant(list, number) ==
    LET hits == {i \in 1..Len(list.items) :
                    /\ list.items[i].type = "CONSTANT_NUMBER"
                    /\ DoubleEq(list.items[i].value, number)}
    IN IF hits = {} THEN NotFound
       ELSE list.pad + (CHOOSE i \in hits : \A j \in hits : i <= j) - 1

ir_constant_string(st, proto, symbol_id) ==
    LET list == st.heap[proto].constant_list
        index == ir_find_string_constant(list, symbol_id)
        added == ir_constant_list_add(list, StringConstant(symbol_id))
    IN IF index = NotFound
       THEN [st |-> [st EXCEPT !.heap[proto].constant_list =
                                  [added EXCEPT !.size = list.size + 1]],
             ret |-> list.size]
       ELSE [st |-> st, ret |-> index]

ir_constant_number(st, proto, value) ==
    LET list == st.heap[proto].constant_list
        index == ir_find_number_constant(list, value)
        added == ir_constant_list_add(list, NumberConstant(value))
    IN IF index = NotFound
       THEN [st |-> [st EXCEPT !.heap[proto].constant_list =
                                  [added EXCEPT !.size = list.size + 1]],
             ret |-> list.size]
       ELSE [st |-> st, ret |-> index]

Pool == heap[MainProto].constant_list
PrePool == pre.heap[MainProto].constant_list

(* the number of entries of a list *)
Entries(list) == list.pad + Len(list.items)

IsPrefix(a, b) == Len(a) <= Len(b) /\ SubSeq(b, 1, Len(a)) = a

HoldsString(list, s) ==
    \E i \in 1..Len(list.items) :
        list.items[i].type = "CONSTANT_STRING" /\ list.items[i].symbol_id = s

NumberEntries(list) == {i \in 1..Len(list.items) : list.items[i].type = "CONSTANT_NUMBER"}

(***************************************************************************)
(* SpecPool: interning calls on the pool of one fresh prototype.           *)
(***************************************************************************)
SymbolIds == {1, 2}
PoolNumbers == {PosZero, NegZero, NaN, Whole(32768), Fin(FALSE, 1)}

InitPool ==
    /\ \E g \in UninitSizes :
          /\ heap = <<ir_proto(g)>>
          /\ pre = [heap |-> <<ir_proto(g)>>, error_count |-> ContextErrorCount]
    /\ error_count = ContextErrorCount
    /\ pc = "pool"
    /\ steps = 0
    /\ lastOp = NoOp
    /\ prevOp = NoOp
    /\ marks = <<>>
    /\ peak = 0
    /\ clean = TRUE
    /\ collected = NotCollected
    /\ faults = 0

InternString(s) ==
    /\ pc = "pool"
    /\ steps < MaxPoolSteps
    /\ LET r == ir_constant_string(State, MainProto, s)
       IN /\ heap' = r.st.heap
          /\ error_count' = r.st.error_count
          /\ lastOp' = Op("intern_string", s, r.ret, FALSE, 0)
    /\ prevOp' = lastOp
    /\ pre' = State
    /\ steps' = steps + 1
    /\ UNCHANGED <<pc, marks, peak, clean, collected, faults>>

InternNumber(v) ==
    /\ pc = "pool"
    /\ steps < MaxPoolSteps
    /\ LET r == ir_constant_number(State, MainProto, v)
       IN /\ heap' = r.st.heap
          /\ error_count' = r.st.error_count
          /\ lastOp' = Op("intern_number", v, r.ret, FALSE, 0)
    /\ prevOp' = lastOp
    /\ pre' = State
    /\ steps' = steps + 1
    /\ UNCHANGED <<pc, marks, peak, clean, collected, faults>>

NextPool ==
    \/ \E s \in SymbolIds : InternString(s)
    \/ \E v \in PoolNumbers : InternNumber(v)

SpecPool == InitPool /\ [][NextPool]_vars

(* C1: interning the same symbol identifier twice in a row returns the same
   index both times and the second call adds no entry; a call on a pool that
   does not hold the symbol returns the number of entries the pool had and
   adds exactly one; the entries already in the pool keep their positions. *)
InternStringIdempotent ==
    lastOp.op = "intern_string" =>
        /\ IsPrefix(PrePool.items, Pool.items)
        /\ ~HoldsString(PrePool, lastOp.arg) =>
              /\ lastOp.ret = Entries(PrePool)
              /\ Entries(Pool) = Entries(PrePool) + 1
        /\ (prevOp.op = "intern_string" /\ prevOp.arg = lastOp.arg) =>
              /\ lastOp.ret = prevOp.ret
              /\ Entries(Pool) = Entries(PrePool)

(* C2 as stated: interning 0.0 and then -0.0 returns two distinct indices
   and leaves two number entries in the pool. *)
ZeroAndNegZeroDistinct ==
    (/\ prevOp.op = "intern_number" /\ prevOp.arg = PosZero
     /\ lastOp.op = "intern_number" /\ lastOp.arg = NegZero) =>
        /\ lastOp.ret # prevOp.ret
        /\ Cardinality(NumberEntries(Pool)) = 2

(* C2 as the code has it: numbers are compared with ==, under which 0.0 and
   -0.0 are equal: interning -0.0 right after 0.0 finds the entry of 0.0,
   returns its position in the list and adds nothing, so that the pool holds
   one number entry for the two. *)
ZeroAndNegZeroShareEntry ==
    (/\ prevOp.op = "intern_number" /\ prevOp.arg = PosZero
     /\ lastOp.op = "intern_number" /\ lastOp.arg = NegZero) =>
        /\ Pool = PrePool
        /\ lastOp.ret \in 0..(Entries(Pool) - 1)
        /\ Pool.items[lastOp.ret + 1].type = "CONSTANT_NUMBER"
        /\ Pool.items[lastOp.ret + 1].value \in {PosZero, NegZero}
        /\ Cardinality({i \in NumberEntries(Pool) :
                           Pool.items[i].value \in {PosZero, NegZero}}) = 1

(* -0.0 is interned right after 0.0 was added to an empty pool *)
ZeroAndNegZeroWitness ==
    /\ prevOp.op = "intern_number" /\ prevOp.arg = PosZero
    /\ lastOp.op = "intern_number" /\ lastOp.arg = NegZero
    /\ Pool.items = <<NumberConstant(PosZero)>>
    /\ lastOp.ret = 0

(***************************************************************************)
(* Syntax tree nodes, as the parser hands them to ir_build_proto.          *)
(***************************************************************************)
NullNode == [type |-> "NULL"]
String(s) == [type |-> "NODE_STRING", s |-> s]
Number(value) == [type |-> "NODE_NUMBER", value |-> value]
Identifier(s, is_global) == [type |-> "NODE_IDENTIFIER", s |-> s, is_global |-> is_global]
NameReference(identifier) == [type |-> "NODE_NAME_REFERENCE", identifier |-> identifier]
Call(prefix_expression, args) ==
    [type |-> "NODE_CALL", prefix_expression |-> prefix_expression, args |-> args]
ExpressionList(init, expression, size) ==
    [type |-> "NODE_EXPRESSION_LIST", init |-> init, expression |-> expression, size |-> size]
ExpressionStatement(expression) ==
    [type |-> "NODE_EXPRESSION_STATEMENT", expression |-> expression]
Block(init, statement) == [type |-> "NODE_BLOCK", init |-> init, statement |-> statement]
(* a function body whose parameter list has a name list of `size' names *)
FunctionBody(size, vararg, body) ==
    [type |-> "NODE_FUNCTION_BODY", size |-> size, vararg |-> vararg, body |-> body]

(***************************************************************************)
(* Prototype lists.  A list is the value of its struct [first, last,       *)
(* size]; NullList stands for the NULL list pointer (ir_proto_list never   *)
(* makes a list of size 0).                                                *)
(***************************************************************************)
NullList == [first |-> NULL, last |-> NULL, size |-> 0]

(* ir_proto_append: the heap and the list struct after the call.  The
   function has no return statement. *)
ir_proto_append(h, list, proto) ==
    IF list = NullList
    THEN [heap |-> h, list |-> list]
    ELSE IF list.first = NULL /\ list.last = NULL
    THEN [heap |-> [h EXCEPT ![proto].prev = NULL, ![proto].next = NULL],
          list |-> [list EXCEPT !.first = proto, !.last = proto]]
    ELSE LET h1 == [h EXCEPT ![proto].next = h[list.last].next]
             h2 == IF h1[proto].next # NULL
                   THEN [h1 EXCEPT ![h1[proto].next].prev = proto]
                   ELSE h1
             h3 == [h2 EXCEPT ![list.last].next = proto]
             h4 == [h3 EXCEPT ![proto].prev = list.last]
         IN [heap |-> h4, list |-> [list EXCEPT !.last = proto]]

(* the prototypes of a list, walked from first along next, at most `fuel' *)
RECURSIVE Walk(_, _, _)
Walk(h, p, fuel) ==
    IF p = NULL \/ fuel = 0 THEN <<>> ELSE <<p>> \o Walk(h, h[p].next, fuel - 1)

Children(h, proto) == Walk(h, h[proto].protos.first, Len(h) + 1)

(***************************************************************************)
(* ir_build_proto.  `env' holds what the build leaves undetermined: the    *)
(* value of an instruction pointer that was never assigned, and the size   *)
(* word of the constant list of a new prototype.                           *)
(***************************************************************************)
Emit(st, proto, instruction) ==
    [st EXCEPT !.heap[proto].code = ir_append(@, instruction)]

RECURSIVE ir_build_proto(_, _, _, _)

BuildString(st, proto, node, env) ==
    LET c == ir_constant_string(st, proto, node.s)
        a == ir_allocate_register(c.st, proto, 1)
    IN Emit(a.st, proto, ir_instruction_ABx("IR_LOADK", a.ret, c.ret))

BuildNumber_strict(st, proto, node, env) ==
    IF /\ DoubleLeqInt(node.value, SHRT_MAX - 1)
       /\ DoubleGeqInt(node.value, SHRT_MIN)
       /\ FloorIsSelf(node.value)
    THEN LET a == ir_allocate_register(st, proto, 1)
         IN Emit(a.st, proto,
                 ir_instruction_AsBx("IR_LOADI", a.ret, DoubleToShort(node.value)))
    ELSE LET c == ir_constant_number(st, proto, node.value)
             a == ir_allocate_register(c.st, proto, 1)
         IN IF c.ret <= UINT16_MAX
            THEN Emit(a.st, proto, ir_instruction_ABx("IR_LOADK", a.ret, c.ret))
            ELSE Emit(Emit(a.st, proto, ir_instruction_ABx("IR_LOADKX", a.ret, 0)),
                      proto, ir_instruction_sub(c.ret))

BuildNumber(st, proto, node, env) ==
    IF /\ DoubleLeqInt(node.value, SHRT_MAX)
       /\ DoubleGeqInt(node.value, SHRT_MIN)
       /\ FloorIsSelf(node.value)
    THEN LET a == ir_allocate_register(st, proto, 1)
         IN Emit(a.st, proto,
                 ir_instruction_AsBx("IR_LOADI", a.ret, DoubleToShort(node.value)))
    ELSE LET c == ir_constant_number(st, proto, node.value)
             a == ir_allocate_register(c.st, proto, 1)
         IN IF c.ret <= UINT16_MAX
            THEN Emit(a.st, proto, ir_instruction_ABx("IR_LOADK", a.ret, c.ret))
            ELSE Emit(Emit(a.st, proto, ir_instruction_ABx("IR_LOADKX", a.ret, 0)),
                      proto, ir_instruction_sub(c.ret))

(* on the path of a name that is not global, `instruction' is appended
   without ever having been assigned *)
BuildIdentifier(st, proto, node, env) ==
    IF node.is_global
    THEN LET c == ir_constant_string(st, proto, node.s)
             a == ir_allocate_register(c.st, proto, 1)
         IN Emit(a.st, proto, ir_instruction_ABx("IR_GETGLOBAL", a.ret, c.ret))
    ELSE Emit(st, proto, env.uninit)

BuildCall(st, proto, node, env) ==
    LET function == node.prefix_expression
        args == node.args
        size == IF args.type = "NULL" THEN 0
                ELSE IF args.type # "NODE_EXPRESSION_LIST" THEN 1
                ELSE args.size
        old == st.heap[proto].top_register
        s1 == ir_build_proto(st, proto, function, env)
        s2 == ir_build_proto(s1, proto, args, env)
        instruction == ir_instruction_ABC("IR_CALL", old, size + 1, 1)
        f == ir_free_register(s2, proto, ToUChar(size + 1))
    IN Emit(f.st, proto, instruction)

(* IR_ARGPREP + (vararg != NULL) *)
ArgPrepOp(vararg) == IF vararg THEN "IR_VARARGPREP" ELSE "IR_ARGPREP"

(* the new prototype p gets its flags only: arg_instr goes into a section
   that is assigned to nothing, and the body, the return and the closure
   are built with `proto' *)
BuildFunctionBody(st, proto, node, env) ==
    LET p == Len(st.heap) + 1
        new == [ir_proto(env.g) EXCEPT !.is_vararg = node.vararg,
                                       !.parameters_size = node.size]
        s0 == [st EXCEPT !.heap = Append(st.heap, new)]
        arg_instr == ir_instruction_ABC(ArgPrepOp(node.vararg), node.size, 0, 0)
        section == <<arg_instr>>
        s1 == ir_build_proto(s0, proto, node.body, env)
        s2 == Emit(s1, proto, ir_instruction_ABC("IR_RETURN", 0, 1, 0))
        ap == ir_proto_append(s2.heap, s2.heap[proto].protos, p)
        s3 == [s2 EXCEPT !.heap = [ap.heap EXCEPT ![proto].protos = ap.list]]
        a == ir_allocate_register(s3, proto, 1)
    IN Emit(a.st, proto,
            ir_instruction_ABx("IR_CLOSURE", a.ret, a.st.heap[proto].protos.size - 1))

BuildPair(st, proto, first, second, env) ==
    IF second.type = "NULL"
    THEN ir_build_proto(st, proto, first, env)
    ELSE ir_build_proto(ir_build_proto(st, proto, first, env), proto, second, env)

ir_build_proto(st, proto, node, env) ==
    CASE node.type = "NULL" -> st
      [] node.type = "NODE_EXPRESSION_STATEMENT" ->
            ir_build_proto(st, proto, node.expression, env)
      [] node.type = "NODE_CALL" -> BuildCall(st, proto, node, env)
      [] node.type = "NODE_STRING" -> BuildString(st, proto, node, env)
      [] node.type = "NODE_NAME_REFERENCE" ->
            ir_build_proto(st, proto, node.identifier, env)
      [] node.type = "NODE_NUMBER" -> BuildNumber(st, proto, node, env)
      [] node.type = "NODE_IDENTIFIER" -> BuildIdentifier(st, proto, node, env)
      [] node.type = "NODE_BLOCK" -> BuildPair(st, proto, node.init, node.statement, env)
      [] node.type = "NODE_FUNCTION_BODY" -> BuildFunctionBody(st, proto, node, env)
      [] node.type = "NODE_EXPRESSION_LIST" ->
            BuildPair(st, proto, node.init, node.expression, env)
      [] OTHER -> st


(***************************************************************************)
(* SpecBuild: ir_build on a root block, one statement of the block per     *)
(* step.  The initial state is the one after ir_build has made the root    *)
(* prototype, marked it vararg and appended IR_VARARGPREP (proto->code,    *)
(* which ir_proto leaves unassigned, reading as NULL there: ir_append then *)
(* makes the section; no other run gets past that call).  Finish is the    *)
(* closing IR_RETURN.  The pool of the root prototype is empty, or holds   *)
(* PadEntries entries already (their instructions are left out of code).   *)
(* A function body names its parameter list by the size of its name list.  *)
(***************************************************************************)
PadEntries == 65535

Pads == {0, PadEntries}

RootProto(g, pad) ==
    [ir_proto(g) EXCEPT !.is_vararg = TRUE,
                        !.code = <<ir_instruction_ABC("IR_VARARGPREP", 0, 0, 0)>>,
                        !.code_set = TRUE,
                        !.constant_list = [pad |-> pad, items |-> <<>>, size |-> g + pad]]

Envs == [uninit : UninitInstructions, g : UninitSizes]

Callee == NameReference(Identifier(1, TRUE))
Local == NameReference(Identifier(2, FALSE))

BuildNumbers ==
    {Whole(32767), Whole(32768), Whole(-32768), Whole(-32769), Fin(FALSE, 1), NaN}

NumberStatements == {ExpressionStatement(Number(v)) : v \in BuildNumbers}

CallHi == ExpressionStatement(Call(Callee, String(2)))

CallStatements ==
    {CallHi,
     ExpressionStatement(Call(Callee, NullNode)),
     ExpressionStatement(Call(Callee, Number(Whole(32768)))),
     ExpressionStatement(Call(Callee, ExpressionList(String(1), String(2), 2))),
     ExpressionStatement(Call(Callee, Local)),
     ExpressionStatement(Call(Callee, Call(Callee, String(2)))),
     ExpressionStatement(Call(Callee, FunctionBody(0, FALSE, Block(CallHi, NullNode))))}

LocalStatement == ExpressionStatement(Local)

Function0 == FunctionBody(0, FALSE, Block(CallHi, NullNode))

FunctionStatements ==
    {ExpressionStatement(Function0),
     ExpressionStatement(FunctionBody(1, TRUE,
         Block(Block(ExpressionStatement(Number(Whole(7))), NullNode), CallHi))),
     ExpressionStatement(FunctionBody(0, FALSE, Block(ExpressionStatement(Function0), NullNode)))}

Statements == NumberStatements \cup CallStatements \cup {LocalStatement} \cup FunctionStatements

InitBuild ==
    /\ \E g \in UninitSizes, pad \in Pads :
          /\ heap = <<RootProto(g, pad)>>
          /\ pre = [heap |-> <<RootProto(g, pad)>>, error_count |-> ContextErrorCount]
    /\ error_count = ContextErrorCount
    /\ pc = "body"
    /\ steps = 0
    /\ lastOp = NoOp
    /\ prevOp = NoOp
    /\ marks = <<>>
    /\ peak = 0
    /\ clean = TRUE
    /\ collected = NotCollected
    /\ faults = 0

LowerStatement(node, env) ==
    /\ pc = "body"
    /\ steps < MaxStmts
    /\ LET r == ir_build_proto(State, MainProto, node, env)
       IN /\ heap' = r.heap
          /\ error_count' = r.error_count
    /\ lastOp' = Op("lower", node, 0, FALSE, 0)
    /\ prevOp' = lastOp
    /\ pre' = State
    /\ steps' = steps + 1
    /\ UNCHANGED <<pc, marks, peak, clean, collected, faults>>

Finish ==
    /\ pc = "body"
    /\ heap' = Emit(State, MainProto, ir_instruction_ABC("IR_RETURN", 0, 1, 0)).heap
    /\ pc' = "done"
    /\ lastOp' = Op("finish", 0, 0, FALSE, 0)
    /\ prevOp' = lastOp
    /\ pre' = State
    /\ UNCHANGED <<error_count, steps, marks, peak, clean, collected, faults>>

NextBuild ==
    \/ \E node \in Statements, env \in Envs : LowerStatement(node, env)
    \/ Finish

SpecBuild == InitBuild /\ [][NextBuild]_vars

Code == heap[MainProto].code
PreCode == pre.heap[MainProto].code
Top == heap[MainProto].top_register
PreTop == pre.heap[MainProto].top_register

Lowered(node) == lastOp.op = "lower" /\ lastOp.arg = node
LoweredNumber == lastOp.op = "lower" /\ lastOp.arg \in NumberStatements

(* the instructions the last step appended *)
Appended == SubSeq(Code, Len(PreCode) + 1, Len(Code))

(* the value is a whole number of the signed 16-bit range *)
FitsImmediate(v) == v.k = "fin" /\ v.half % 2 = 0 /\ v.half <= 65534 + (IF v.neg THEN 2 ELSE 0)

(* C4: a number literal that is a whole number of the signed 16-bit range
   appends one IR_LOADI with that value and leaves the pool alone; any other
   value is interned and, x being the index interning gave it (the size
   field of a pool it was added to, the position of the entry equal to it
   otherwise), appends one IR_LOADK with Bx = x when x <= 65535, and
   IR_LOADKX with Bx = 0 directly followed by the raw word x otherwise.  In
   each case A is the old top_register and top_register advances by one. *)
NumberLiteralEncoding ==
    LoweredNumber =>
        LET v == lastOp.arg.expression.value
            found == {i \in 1..Len(PrePool.items) :
                         /\ PrePool.items[i].type = "CONSTANT_NUMBER"
                         /\ PrePool.items[i].value = v
                         /\ v # NaN}
            x == IF found = {} THEN PrePool.size
                 ELSE PrePool.pad + (CHOOSE i \in found : \A j \in found : i <= j) - 1
        IN /\ IsPrefix(PreCode, Code)
           /\ Top = (PreTop + 1) % 256
           /\ IF FitsImmediate(v)
              THEN /\ Pool = PrePool
                   /\ Appended = <<[mode |-> "iAsBx", op |-> "IR_LOADI", A |-> PreTop,
                                    sBx |-> IF v.neg THEN 0 - (v.half \div 2)
                                            ELSE v.half \div 2]>>
              ELSE /\ IF found = {}
                      THEN /\ IsPrefix(PrePool.items, Pool.items)
                           /\ Len(Pool.items) = Len(PrePool.items) + 1
                           /\ Pool.items[Len(Pool.items)] = NumberConstant(v)
                      ELSE Pool = PrePool
                   /\ IF x <= 65535
                      THEN Appended = <<[mode |-> "iABx", op |-> "IR_LOADK",
                                         A |-> PreTop, Bx |-> x]>>
                      ELSE Appended = <<[mode |-> "iABx", op |-> "IR_LOADKX",
                                         A |-> PreTop, Bx |-> 0],
                                        [mode |-> "SUB", value |-> x]>>

(* a number is lowered into a pool that holds 65536 entries, counted by its
   size field: IR_LOADKX and the raw word 65536 *)
NumberLiteralExtendedWitness ==
    /\ LoweredNumber
    /\ Entries(PrePool) = 65536
    /\ PrePool.size = 65536
    /\ Len(Appended) = 2
    /\ Appended[1].op = "IR_LOADKX"
    /\ Appended[2] = [mode |-> "SUB", value |-> 65536]


IsOp(instruction, op) == instruction.mode \in {"iABC", "iABx", "iAsBx"} /\ instruction.op = op

(* C6: lowering a nested function body puts the function's code in the new
   child prototype: the child's code starts with the argument-preparation
   instruction and ends with a return instruction, and the code of the
   enclosing prototype gains the make-closure instruction only. *)
FunctionBodyLoweredIntoChild ==
    (lastOp.op = "lower" /\ lastOp.arg \in FunctionStatements) =>
        LET child == heap[Len(pre.heap) + 1]
            body == lastOp.arg.expression
        IN /\ child.code_set
           /\ Len(child.code) >= 2
           /\ child.code[1] = [mode |-> "iABC", op |-> ArgPrepOp(body.vararg),
                               A |-> body.size, B |-> 0, C |-> 0]
           /\ IsOp(child.code[Len(child.code)], "IR_RETURN")
           /\ Len(Appended) = 1
           /\ IsOp(Appended[1], "IR_CLOSURE")

IsClosure(instruction) == IsOp(instruction, "IR_CLOSURE")

(* C7: in every prototype the i-th make-closure instruction carries i-1,
   the position of its child in the child list, and the child list holds as
   many children as the code holds make-closure instructions. *)
ClosureCarriesChildPosition ==
    \A q \in 1..Len(heap) :
        LET closures == SelectSeq(heap[q].code, IsClosure)
        IN /\ Len(Children(heap, q)) = Len(closures)
           /\ \A i \in 1..Len(closures) : closures[i].Bx = i - 1

(* the position of the entry of symbol s in a pool *)
PositionOfString(list, s) ==
    list.pad + (CHOOSE i \in 1..Len(list.items) :
                   /\ list.items[i] = StringConstant(s)
                   /\ \A j \in 1..(i - 1) : list.items[j] # StringConstant(s)) - 1

(* the index interning gives symbol s in a pool whose size field is `size':
   the position of its entry, or `size' when the pool does not hold it *)
InternedIndex(list, s, size) ==
    IF HoldsString(list, s) THEN PositionOfString(list, s) ELSE size

(* C8: lowering the statement f("s") with a global f from top_register = R
   appends exactly load-global (A=R, Bx=index of the interned name),
   load-constant (A=R+1, Bx=index of the interned string) and
   call (A=R, B=2, C=1), and leaves top_register at R. *)
CallStatementLowering ==
    Lowered(CallHi) =>
        LET name == InternedIndex(PrePool, 1, PrePool.size)
            string == InternedIndex(PrePool, 2,
                          IF HoldsString(PrePool, 1) THEN PrePool.size ELSE PrePool.size + 1)
        IN /\ Appended = <<[mode |-> "iABx", op |-> "IR_GETGLOBAL", A |-> PreTop,
                            Bx |-> name],
                           [mode |-> "iABx", op |-> "IR_LOADK", A |-> PreTop + 1,
                            Bx |-> string],
                           [mode |-> "iABC", op |-> "IR_CALL", A |-> PreTop, B |-> 2, C |-> 1]>>
           /\ Top = PreTop

(* C10: lowering a reference to a name that is not global appends no
   instruction and raises the error counter, and the code never holds an
   instruction whose opcode and operands were not set. *)
NonGlobalReferenceReported ==
    /\ Lowered(LocalStatement) =>
          /\ Code = PreCode
          /\ error_count > pre.error_count
    /\ \A q \in 1..Len(heap) : \A i \in 1..Len(heap[q].code) :
          heap[q].code[i].mode # "UNINIT"

(***************************************************************************)
(* ir_collect_protos.  ir_proto_append has no return statement, and        *)
(* ir_collect_protos returns its value: `ret_list' is whether the build    *)
(* leaves the list there.  A result with valid = FALSE is an indeterminate *)
(* pointer, and so is what is computed from it.                            *)
(***************************************************************************)
ir_proto_join(h, first, second) ==
    IF first = NullList
    THEN [heap |-> h, list |-> second]
    ELSE LET h1 == [h EXCEPT ![first.last].next = second.first]
             h2 == [h1 EXCEPT ![second.first].prev = first.last]
         IN [heap |-> h2,
             list |-> [ir_proto_list(first.first, second.last)
                          EXCEPT !.size = first.size + second.size]]

RECURSIVE ir_collect_protos(_, _, _)
RECURSIVE CollectLoop(_, _, _, _)

(* the for loop of ir_collect_protos, from `iter' on *)
CollectLoop(h, iter, list, ret_list) ==
    IF iter = NULL
    THEN [heap |-> h, list |-> list, valid |-> TRUE]
    ELSE LET c == ir_collect_protos(h, iter, ret_list)
         IN IF ~c.valid
            THEN [heap |-> c.heap, list |-> list, valid |-> FALSE]
            ELSE LET j == ir_proto_join(c.heap, list, c.list)
                 IN CollectLoop(j.heap, j.heap[iter].next, j.list, ret_list)

ir_collect_protos(h, main, ret_list) ==
    LET l == CollectLoop(h, h[main].protos.first, NullList, ret_list)
    IN IF ~l.valid THEN l
       ELSE IF l.list = NullList
       THEN [heap |-> l.heap, list |-> ir_proto_list(main, main), valid |-> TRUE]
       ELSE LET a == ir_proto_append(l.heap, l.list, main)
            IN [heap |-> a.heap, list |-> a.list, valid |-> ret_list]

(***************************************************************************)
(* SpecCollect: a prototype tree is put together with ir_proto and         *)
(* ir_proto_append, a child at a time, and then collected once.  A child   *)
(* may be given to any prototype: ir_build_proto itself registers every    *)
(* child with the prototype it is called with, which makes flat trees, and *)
(* nested trees are what ir_collect_protos recurses for.                   *)
(***************************************************************************)
MaxProtos == 6

InitCollect ==
    /\ heap = <<ir_proto(0)>>
    /\ error_count = ContextErrorCount
    /\ pc = "tree"
    /\ steps = 0
    /\ lastOp = NoOp
    /\ prevOp = NoOp
    /\ pre = [heap |-> <<ir_proto(0)>>, error_count |-> ContextErrorCount]
    /\ marks = <<>>
    /\ peak = 0
    /\ clean = TRUE
    /\ collected = NotCollected
    /\ faults = 0

AddChild(parent) ==
    /\ pc = "tree"
    /\ Len(heap) < MaxProtos
    /\ LET p == Len(heap) + 1
           h0 == Append(heap, ir_proto(0))
           a == ir_proto_append(h0, h0[parent].protos, p)
       IN heap' = [a.heap EXCEPT ![parent].protos = a.list]
    /\ lastOp' = Op("add_child", parent, 0, FALSE, 0)
    /\ prevOp' = lastOp
    /\ pre' = State
    /\ UNCHANGED <<error_count, pc, steps, marks, peak, clean, collected, faults>>

Collect(ret_list) ==
    /\ pc = "tree"
    /\ LET r == ir_collect_protos(heap, MainProto, ret_list)
       IN /\ heap' = r.heap
          /\ collected' = [valid |-> r.valid,
                           seq |-> IF r.valid THEN Walk(r.heap, r.list.first, Len(heap) + 1)
                                   ELSE <<>>]
    /\ pc' = "collected"
    /\ lastOp' = Op("collect", MainProto, 0, FALSE, 0)
    /\ prevOp' = lastOp
    /\ pre' = State
    /\ UNCHANGED <<error_count, steps, marks, peak, clean, faults>>

NextCollect ==
    \/ \E parent \in 1..Len(heap) : AddChild(parent)
    \/ \E ret_list \in BOOLEAN : Collect(ret_list)

SpecCollect == InitCollect /\ [][NextCollect]_vars

PositionIn(seq, q) == CHOOSE i \in 1..Len(seq) : seq[i] = q

(* C5: the collected sequence holds every prototype of the tree exactly
   once, every child before its enclosing parent, and siblings in the order
   of the child list (read on the builds in which ir_collect_protos hands
   back the list it made). *)
CollectChildrenBeforeParent ==
    (pc = "collected" /\ collected.valid) =>
        LET tree == pre.heap
            seq == collected.seq
        IN /\ Len(seq) = Len(tree)
           /\ \A q \in 1..Len(tree) : \E i \in 1..Len(seq) : seq[i] = q
           /\ \A q \in 1..Len(tree) :
                 LET kids == Children(tree, q)
                 IN \A i \in 1..Len(kids) :
                       /\ PositionIn(seq, kids[i]) < PositionIn(seq, q)
                       /\ \A j \in 1..(i - 1) :
                             PositionIn(seq, kids[j]) < PositionIn(seq, kids[i])


(* C11: the error counter equals the number of allocate calls whose advance
   would have taken top_register above 255 plus the number of free calls
   that would have taken it below 0 (`faults' counts them from the state
   each call started in), and a call that does not fault leaves the counter
   as it was. *)
ErrorCountCountsFaults ==
    /\ error_count = faults
    /\ (lastOp.op = "allocate" /\ PreTop + lastOp.arg <= 255) =>
          error_count = pre.error_count
    /\ (lastOp.op = "free" /\ PreTop - lastOp.arg >= 0) =>
          error_count = pre.error_count

(* an allocate that ran out of registers was followed by a free that went
   below 0, after a call that did not fault *)
ErrorCountWitness ==
    /\ prevOp.op = "allocate" /\ prevOp.fault
    /\ lastOp.op = "free" /\ lastOp.fault
    /\ steps = 3
    /\ error_count = 2

(* the call statements whose callee and arguments are string or number
   literals, global names, nested function bodies or calls *)
DefinedCallStatements == CallStatements \ {ExpressionStatement(Call(Callee, Local))}

(* C12: lowering a call expression leaves top_register at the value it had
   before the lowering began and raises no register-underflow fault (read
   from the states with registers to spare, in which no allocation can
   fault, so that a change of the error counter is an underflow). *)
CallRestoresTopRegister ==
    (/\ lastOp.op = "lower"
     /\ lastOp.arg \in DefinedCallStatements
     /\ PreTop + 8 <= 255) =>
        /\ Top = PreTop
        /\ error_count = pre.error_count


====
